---------------------------- MODULE Spec2Model ----------------------------
(***************************************************************************)
(* State-machine model of the hybrid recipe recommender:                   *)
(*   src/data/data_preprocessor.py   DataPreprocessor (codec, matrix)      *)
(*   src/recommendation_models.py    CollaborativeFilteringModel,          *)
(*                                   ContentBasedModel, HybridRecommender  *)
(*   src/src/train_model.py          main (split, train matrix, fit, save) *)
(*                                                                         *)
(* Numbers.  The code computes in float64.  The model uses fixed point:    *)
(* ratings, the global mean and collaborative scores are in hundredths     *)
(* (Scale), cosine similarities are in hundredths truncated toward zero,   *)
(* fusion weights are in tenths, hybrid scores are in units of             *)
(* 1/HybridDen.  Python's None is the empty tuple, a present value v is    *)
(* the one-element tuple <<v>>.                                            *)
(***************************************************************************)
EXTENDS Integers, Sequences, FiniteSets, TLC

VARIABLES
    pre,    \* the DataPreprocessor: interactions_df, sparse_matrix, id_mappings
    rec,    \* the HybridRecommender in use (constructed, fitted or loaded)
    disk,   \* the files save_model wrote under models/, None before
    out,    \* the call in progress and what it returned or raised
    refit,  \* a fit under way on the recommender in use: its position, or None
    run     \* the run of train_model.main: its position and its locals

vars == <<pre, rec, disk, out, refit, run>>

-----------------------------------------------------------------------------
(* Bounds of the model and the input universes *)

MaxRows == 2        \* rows of the interaction table
MaxN == 2           \* largest n_recommendations / n_similar asked for

UserIds == {1, 2}           \* raw user ids
RecipeIds == {1, 2, 3}      \* raw recipe ids of the recipe table
RatedRecipeIds == {1, 2}    \* the recipes that have ratings (3 has none left)
Ratings == {2, 5}           \* ratings kept by preprocess_interactions (1..5)
FactorVals == {-1, 1}       \* entries of the SVD components
RecipeOrder == <<2, 1, 3>>  \* row order of the raw recipe table

None == <<>>
Some(v) == <<v>>
IsNone(x) == x = <<>>
Val(x) == x[1]

-----------------------------------------------------------------------------
(* Arithmetic helpers *)

Abs(x) == IF x < 0 THEN -x ELSE x

Min2(a, b) == IF a < b THEN a ELSE b

RECURSIVE SumOver(_, _)
SumOver(S, f) ==
    IF S = {} THEN 0
    ELSE LET x == CHOOSE y \in S : TRUE
         IN f[x] + SumOver(S \ {x}, f)

\* floor of the square root of a natural number
RECURSIVE ISqrtBetween(_, _, _)
ISqrtBetween(x, lo, hi) ==
    IF lo = hi THEN lo
    ELSE LET mid == (lo + hi + 1) \div 2
         IN IF mid * mid <= x THEN ISqrtBetween(x, mid, hi)
            ELSE ISqrtBetween(x, lo, mid - 1)

ISqrt(x) == ISqrtBetween(x, 0, Min2(x, 46340))

Range(s) == {s[k] : k \in DOMAIN s}

\* the subsequence of s at the (1-based) positions in P, in order
RECURSIVE SubSeqAt(_, _)
SubSeqAt(s, P) ==
    IF P = {} THEN <<>>
    ELSE LET m == CHOOSE k \in P : \A j \in P : k <= j
         IN <<s[m]>> \o SubSeqAt(s, P \ {m})

\* Python's s[:n] for n >= 0
Take(s, n) == SubSeq(s, 1, Min2(n, Len(s)))

\* all orderings of a finite set, as sequences
Perms(S) ==
    {p \in [1..Cardinality(S) -> S] : \A a, b \in DOMAIN p : a # b => p[a] # p[b]}

-----------------------------------------------------------------------------
(* DataPreprocessor: the identifier codec and the interaction matrix *)

\* the interaction tables preprocess_interactions can leave: at least one
\* row, every rating in 1..5
RawRows == [user_id : UserIds, recipe_id : RatedRecipeIds, rating : Ratings]

Tables == UNION {[1..n -> RawRows] : n \in 1..MaxRows}

\* an encoder whose classes_ come largest first
RECURSIVE ClassesDescending(_)
ClassesDescending(S) ==
    IF S = {} THEN <<>>
    ELSE LET m == CHOOSE x \in S : \A y \in S : x >= y
         IN <<m>> \o ClassesDescending(S \ {m})

\* LabelEncoder.fit: classes_ is the sorted array of the distinct values
RECURSIVE Classes(_)
Classes(S) ==
    IF S = {} THEN <<>>
    ELSE LET m == CHOOSE x \in S : \A y \in S : x <= y
         IN <<m>> \o Classes(S \ {m})

\* a transform that counts positions from 1
TransformOneBased(classes, v) == CHOOSE k \in DOMAIN classes : classes[k] = v

\* LabelEncoder.transform: the 0-based position of v in classes_
Transform(classes, v) == (CHOOSE k \in DOMAIN classes : classes[k] = v) - 1

\* scipy csr_matrix((data, (row, col)), shape): entries given for the same
\* (row, col) are summed
CsrMatrix(data, row, col, shape) ==
    [u \in 0..(shape[1] - 1) |->
        [i \in 0..(shape[2] - 1) |->
            SumOver({k \in DOMAIN data : row[k] = u /\ col[k] = i}, data)]]

\* the matrix as train_model.main and create_user_item_matrix build it from
\* the rating, user_idx and recipe_idx columns of a table
MatrixOfTable(table, shape) ==
    CsrMatrix([k \in DOMAIN table |-> table[k].rating],
              [k \in DOMAIN table |-> table[k].user_idx],
              [k \in DOMAIN table |-> table[k].recipe_idx],
              shape)

\* create_user_item_matrix: fit both encoders, add the index columns, build
\* the matrix with shape (n_users, n_recipes)
EncodedTable(table) ==
    LET ucls == Classes({table[k].user_id : k \in DOMAIN table})
        rcls == Classes({table[k].recipe_id : k \in DOMAIN table})
    IN [k \in DOMAIN table |->
           [user_id |-> table[k].user_id,
            recipe_id |-> table[k].recipe_id,
            rating |-> table[k].rating,
            user_idx |-> Transform(ucls, table[k].user_id),
            recipe_idx |-> Transform(rcls, table[k].recipe_id)]]

create_user_item_matrix(p) ==
    LET table == Val(p.interactions_df)
        ucls == Classes({table[k].user_id : k \in DOMAIN table})
        rcls == Classes({table[k].recipe_id : k \in DOMAIN table})
        enc == EncodedTable(table)
        n_users == Cardinality({enc[k].user_idx : k \in DOMAIN enc})
        n_recipes == Cardinality({enc[k].recipe_idx : k \in DOMAIN enc})
    IN [p EXCEPT !.interactions_df = Some(enc),
                 !.user_encoder = Some(ucls),
                 !.recipe_encoder = Some(rcls),
                 !.sparse_matrix =
                     Some([shape |-> <<n_users, n_recipes>>,
                           m |-> MatrixOfTable(enc, <<n_users, n_recipes>>)])]

\* save_processed_data: the four id mappings written to id_mappings.pkl
IdMappings(ucls, rcls) ==
    LET user_mapping == [id \in Range(ucls) |-> Transform(ucls, id)]
        recipe_mapping == [id \in Range(rcls) |-> Transform(rcls, id)]
    IN [user_to_idx |-> user_mapping,
        recipe_to_idx |-> recipe_mapping,
        idx_to_user |->
            [v \in {user_mapping[id] : id \in DOMAIN user_mapping} |->
                CHOOSE id \in DOMAIN user_mapping : user_mapping[id] = v],
        idx_to_recipe |->
            [v \in {recipe_mapping[id] : id \in DOMAIN recipe_mapping} |->
                CHOOSE id \in DOMAIN recipe_mapping : recipe_mapping[id] = v]]

save_processed_data(p) ==
    [p EXCEPT !.id_mappings =
        Some(IdMappings(Val(p.user_encoder), Val(p.recipe_encoder)))]

\* DataPreprocessor.__init__
NewPreprocessor ==
    [recipes_df |-> None, interactions_df |-> None,
     user_encoder |-> None, recipe_encoder |-> None,
     sparse_matrix |-> None, id_mappings |-> None]

-----------------------------------------------------------------------------
(* What a call gives back *)

Ret(v) == [kind |-> "return", val |-> v]
Raise(e) == [kind |-> "raise", val |-> e]

\* a sort that leaves the list as it is
SortDropped(s) == s

\* a descending sort that is not stable: equal scores come out last-first
RECURSIVE SortTiesReversed(_)
SortTiesReversed(s) ==
    IF s = <<>> THEN <<>>
    ELSE LET k == CHOOSE a \in DOMAIN s :
                     /\ \A b \in DOMAIN s : s[b][2] <= s[a][2]
                     /\ \A b \in DOMAIN s : s[b][2] = s[a][2] => a >= b
         IN <<s[k]>> \o SortTiesReversed(SubSeqAt(s, DOMAIN s \ {k}))

\* list.sort(key=score, reverse=True) and sorted(..., reverse=True) on a list
\* of <<item_id, score>> pairs: descending by score, stable (equal scores keep
\* their order in the list)
RECURSIVE SortByScoreDesc(_)
SortByScoreDesc(s) ==
    IF s = <<>> THEN <<>>
    ELSE LET k == CHOOSE a \in DOMAIN s :
                     /\ \A b \in DOMAIN s : s[b][2] <= s[a][2]
                     /\ \A b \in DOMAIN s : s[b][2] = s[a][2] => a <= b
         IN <<s[k]>> \o SortByScoreDesc(SubSeqAt(s, DOMAIN s \ {k}))

-----------------------------------------------------------------------------
(* CollaborativeFilteringModel *)

Scale == 100        \* one rating point, in the model's hundredths
N_FACTORS == 50     \* the constructor's n_factors

\* CollaborativeFilteringModel.__init__
NewCF ==
    [n_factors |-> N_FACTORS,
     user_factors |-> None, item_factors |-> None,
     user_idx_to_id |-> None, item_idx_to_id |-> None,
     user_id_to_idx |-> None, item_id_to_idx |-> None,
     global_mean |-> 0]

\* sparse_matrix.data.mean(): the mean of the stored entries
GlobalMean(sm) ==
    LET cells == {c \in (0..(sm.shape[1] - 1)) \X (0..(sm.shape[2] - 1)) :
                     sm.m[c[1]][c[2]] # 0}
        total == SumOver(cells, [c \in cells |-> sm.m[c[1]][c[2]]])
    IN (Scale * total) \div Cardinality(cells)

\* TruncatedSVD.fit_transform(X) is X times the fitted components; the model
\* keeps one component column V (one value per item index), which the
\* library chooses
FitTransform(sm, V) ==
    [u \in 0..(sm.shape[1] - 1) |->
        SumOver(0..(sm.shape[2] - 1),
                [i \in 0..(sm.shape[2] - 1) |-> sm.m[u][i] * V[i]])]

\* the component columns fit may end with for n_items items.  Every score is
\* read through user_factors[u] * V[i] = (X[u] . V) * V[i], which V and -V
\* give alike, so one column of each such pair is kept (first entry positive)
Components(n_items) ==
    {V \in [0..(n_items - 1) -> FactorVals] : V[0] > 0}

\* CollaborativeFilteringModel.fit
CFFit(cf, sm, id_mappings, V) ==
    [cf EXCEPT !.user_idx_to_id = Some(id_mappings.idx_to_user),
               !.item_idx_to_id = Some(id_mappings.idx_to_recipe),
               !.user_id_to_idx = Some(id_mappings.user_to_idx),
               !.item_id_to_idx = Some(id_mappings.recipe_to_idx),
               !.global_mean = GlobalMean(sm),
               !.user_factors = Some(FitTransform(sm, V)),
               !.item_factors = Some(V)]

\* a predict that forgets to clamp
ClipDropped(x, lo, hi) == x

\* np.clip(x, lo, hi)
Clip(x, lo, hi) == IF x < lo THEN lo ELSE IF x > hi THEN hi ELSE x

\* global_mean + np.dot(user_factors[user_idx], item_factors[item_idx])
RawScore(cf, user_idx, item_idx) ==
    cf.global_mean
        + Scale * (Val(cf.user_factors)[user_idx] * Val(cf.item_factors)[item_idx])

\* a predict without the except clause: an unknown id is an error
PredictNoFallback(cf, user_id, item_id) ==
    IF IsNone(cf.user_id_to_idx) \/ IsNone(cf.item_id_to_idx)
    THEN Raise("TypeError")
    ELSE IF \/ user_id \notin DOMAIN Val(cf.user_id_to_idx)
            \/ item_id \notin DOMAIN Val(cf.item_id_to_idx)
    THEN Raise("KeyError")
    ELSE Ret(Clip(RawScore(cf, Val(cf.user_id_to_idx)[user_id],
                           Val(cf.item_id_to_idx)[item_id]),
                  1 * Scale, 5 * Scale))

\* CollaborativeFilteringModel.predict
Predict(cf, user_id, item_id) ==
    IF IsNone(cf.user_id_to_idx) \/ IsNone(cf.item_id_to_idx)
    THEN Raise("TypeError")
    ELSE IF \/ user_id \notin DOMAIN Val(cf.user_id_to_idx)
            \/ item_id \notin DOMAIN Val(cf.item_id_to_idx)
    THEN Ret(cf.global_mean)                              \* KeyError
    ELSE LET user_idx == Val(cf.user_id_to_idx)[user_id]
             item_idx == Val(cf.item_id_to_idx)[item_id]
         IN IF IsNone(cf.user_factors) \/ IsNone(cf.item_factors)
            THEN Raise("TypeError")
            ELSE IF \/ user_idx \notin DOMAIN Val(cf.user_factors)
                    \/ item_idx \notin DOMAIN Val(cf.item_factors)
            THEN Ret(cf.global_mean)                      \* IndexError
            ELSE Ret(Clip(RawScore(cf, user_idx, item_idx), 1 * Scale, 5 * Scale))

\* a recommend_items without the try/except around the user lookup
RecommendItemsNoColdStart(cf, user_id, n_recommendations, exclude_items) ==
    IF IsNone(cf.user_id_to_idx) THEN Raise("TypeError")
    ELSE IF user_id \notin DOMAIN Val(cf.user_id_to_idx) THEN Raise("KeyError")
    ELSE Ret(<<>>)

\* CollaborativeFilteringModel.recommend_items
RecommendItems(cf, user_id, n_recommendations, exclude_items) ==
    IF IsNone(cf.user_id_to_idx) THEN Raise("TypeError")
    ELSE IF user_id \notin DOMAIN Val(cf.user_id_to_idx) THEN Ret(<<>>)
    ELSE IF IsNone(cf.user_factors) \/ IsNone(cf.item_factors)
    THEN Raise("TypeError")
    ELSE
      LET user_idx == Val(cf.user_id_to_idx)[user_id]
          n_items == Cardinality(DOMAIN Val(cf.item_factors))
          predictions ==
              [k \in 1..n_items |->
                  <<Val(cf.item_idx_to_id)[k - 1], RawScore(cf, user_idx, k - 1)>>]
          recommendations ==
              SubSeqAt(predictions,
                       {k \in DOMAIN predictions :
                           ~(exclude_items # {} /\ predictions[k][1] \in exclude_items)})
      IN IF user_idx \notin DOMAIN Val(cf.user_factors) THEN Raise("IndexError")
         ELSE IF \E k \in 0..(n_items - 1) : k \notin DOMAIN Val(cf.item_idx_to_id)
         THEN Raise("KeyError")
         ELSE Ret(Take(SortByScoreDesc(recommendations), n_recommendations))

-----------------------------------------------------------------------------
(* ContentBasedModel *)

\* The rows ContentBasedModel.fit builds for the recipes (TF-IDF blocks and
\* z-scored numeric columns), as small integer vectors: recipes 1 and 3 have
\* the same row, recipe 2 points into the opposite half-plane.
FeatureTables ==
    { [id \in RecipeIds |->
          CASE id = 1 -> <<1, 0>> [] id = 2 -> <<-1, 2>> [] OTHER -> <<1, 0>>] }

\* the recipe tables preprocess_recipes can leave for a given interaction
\* table: rows in file order; either exactly the recipes of the interactions
\* or the whole recipe table
RecipeTables(table, features) ==
    LET used == {table[k].recipe_id : k \in DOMAIN table}
    IN {[k \in DOMAIN ids |-> [id |-> ids[k], features |-> features[ids[k]]]] :
           ids \in {SubSeqAt(RecipeOrder, {k \in DOMAIN RecipeOrder : RecipeOrder[k] \in S}) :
                       S \in {used, RecipeIds}}}

\* ContentBasedModel.__init__
NewCB == [recipe_ids |-> None, feature_matrix |-> None]

\* ContentBasedModel.fit
CBFit(cb, recipes_df) ==
    [cb EXCEPT !.recipe_ids = Some([k \in DOMAIN recipes_df |-> recipes_df[k].id]),
               !.feature_matrix =
                   Some([idx \in 0..(Len(recipes_df) - 1) |->
                            recipes_df[idx + 1].features])]

Dot(a, b) == SumOver(DOMAIN a, [k \in DOMAIN a |-> a[k] * b[k]])

\* sklearn cosine_similarity of two rows: rows are L2-normalised first, and a
\* zero row stays zero, so its similarity to everything (itself too) is 0
Cos(a, b) ==
    LET d == Dot(a, b)
        na == Dot(a, a)
        nb == Dot(b, b)
    IN IF na = 0 \/ nb = 0 THEN 0
       ELSE LET q == ISqrt((d * d * Scale * Scale) \div (na * nb))
            IN IF d < 0 THEN -q ELSE q

\* list.index(x): the 0-based position of the first x, None for ValueError
IndexOf(list, x) ==
    IF x \in Range(list)
    THEN Some((CHOOSE k \in DOMAIN list :
                  list[k] = x /\ \A j \in DOMAIN list : list[j] = x => k <= j) - 1)
    ELSE None

\* the results numpy's argsort may give for `similarities`: the indices in
\* ascending order of value; the default sort is not stable, so equal values
\* come in any order
ArgSorts(similarities) ==
    {p \in Perms(DOMAIN similarities) :
        \A k \in 1..(Len(p) - 1) : similarities[p[k]] <= similarities[p[k + 1]]}

Reverse(s) == [k \in DOMAIN s |-> s[Len(s) + 1 - k]]

\* ContentBasedModel.get_similar_items, for one result `order` of argsort
GetSimilarItems(cb, item_id, n_similar, order) ==
    IF IsNone(cb.recipe_ids) THEN Raise("AttributeError")
    ELSE IF IsNone(IndexOf(Val(cb.recipe_ids), item_id)) THEN Ret(<<>>)
    ELSE
      LET recipe_ids == Val(cb.recipe_ids)
          item_idx == Val(IndexOf(recipe_ids, item_id))
          similar_indices ==
              SubSeq(Reverse(order), 2, Min2(n_similar + 1, Len(order)))
      IN Ret([k \in DOMAIN similar_indices |->
                 <<recipe_ids[similar_indices[k] + 1],
                   Cos(Val(cb.feature_matrix)[item_idx],
                       Val(cb.feature_matrix)[similar_indices[k]])>>])

\* the orders argsort may give get_similar_items for its similarities array
SimilarOrders(cb, item_id) ==
    IF IsNone(cb.recipe_ids) THEN {<<>>}
    ELSE IF IsNone(IndexOf(Val(cb.recipe_ids), item_id)) THEN {<<>>}
    ELSE LET item_idx == Val(IndexOf(Val(cb.recipe_ids), item_id))
         IN ArgSorts([idx \in DOMAIN Val(cb.feature_matrix) |->
                         Cos(Val(cb.feature_matrix)[item_idx],
                             Val(cb.feature_matrix)[idx])])

\* the sum of the rows at liked_indices (the mean up to a positive factor,
\* which cosine similarity ignores)
RECURSIVE RowSum(_, _)
RowSum(fm, liked_indices) ==
    IF liked_indices = <<>> THEN <<0, 0>>
    ELSE LET r == fm[Head(liked_indices)]
             t == RowSum(fm, Tail(liked_indices))
         IN <<r[1] + t[1], r[2] + t[2]>>

\* a profile query that forgets to leave the liked recipes out
NotLikedDropped(liked_items, recipe_id) == TRUE

\* `if recipe_id not in liked_items`
NotLiked(liked_items, recipe_id) == recipe_id \notin Range(liked_items)

\* ContentBasedModel.recommend_based_on_profile
RecommendBasedOnProfile(cb, liked_items, n_recommendations) ==
    IF liked_items = <<>> THEN Ret(<<>>)
    ELSE IF IsNone(cb.recipe_ids) THEN Raise("AttributeError")
    ELSE
      LET recipe_ids == Val(cb.recipe_ids)
          known == SubSeqAt(liked_items,
                            {k \in DOMAIN liked_items : liked_items[k] \in Range(recipe_ids)})
          liked_indices == [k \in DOMAIN known |-> Val(IndexOf(recipe_ids, known[k]))]
          feature_matrix == Val(cb.feature_matrix)
          n_rows == Cardinality(DOMAIN feature_matrix)
          user_profile == RowSum(feature_matrix, liked_indices)
          \* zip(recipe_ids, similarities) stops at the shorter of the two
          scored == [k \in 1..Min2(Len(recipe_ids), n_rows) |->
                        <<recipe_ids[k], Cos(user_profile, feature_matrix[k - 1])>>]
          recommendations ==
              SubSeqAt(scored,
                       {k \in DOMAIN scored : NotLiked(liked_items, scored[k][1])})
      IN IF liked_indices = <<>> THEN Ret(<<>>)
         ELSE IF IsNone(cb.feature_matrix) THEN Raise("TypeError")
         ELSE IF \E k \in DOMAIN liked_indices : liked_indices[k] \notin DOMAIN feature_matrix
         THEN Raise("IndexError")
         ELSE Ret(Take(SortByScoreDesc(recommendations), n_recommendations))

-----------------------------------------------------------------------------
(* HybridRecommender *)

\* (cf_weight, cb_weight) pairs given to the constructor, in tenths:
\* train_model's 0.7/0.3 and a pair that does not sum to 1 (the constructor
\* takes any two numbers); load_model constructs with the default 0.6/0.4
WeightPairs == {<<7, 3>>, <<8, 4>>}

\* the denominator of hybrid scores: tenths (weights) x 5 (the rating
\* divisor) x Scale
HybridDen == 10 * 5 * Scale

\* HybridRecommender.__init__
NewRecommender(cf_weight, cb_weight) ==
    [cf_model |-> NewCF, cb_model |-> NewCB,
     cf_weight |-> cf_weight, cb_weight |-> cb_weight,
     recipes_df |-> None, interactions_df |-> None, id_mappings |-> None]

\* HybridRecommender.fit
HybridFit(r, recipes_df, interactions_df, sparse_matrix, id_mappings, V) ==
    [r EXCEPT !.recipes_df = Some(recipes_df),
              !.interactions_df = Some(interactions_df),
              !.id_mappings = Some(id_mappings),
              !.cf_model = CFFit(r.cf_model, sparse_matrix, id_mappings, V),
              !.cb_model = CBFit(r.cb_model, recipes_df)]

\* HybridRecommender.fit one assignment at a time, in program order.  Step:
\*   1..3   fit, lines 212-214: recipes_df, interactions_df, id_mappings
\*   4..7   CollaborativeFilteringModel.fit, lines 32-35: the four mappings
\*   8      line 38: global_mean
\*   9, 10  lines 41, 42: user_factors, item_factors
\*   11, 12 ContentBasedModel.fit, lines 108, 128: recipe_ids, feature_matrix
LastFitStep == 12

FitStep(r, pc, recipes_df, interactions_df, sparse_matrix, id_mappings, V) ==
    LET cf == CFFit(r.cf_model, sparse_matrix, id_mappings, V)
        cb == CBFit(r.cb_model, recipes_df)
    IN CASE pc = 1 -> [r EXCEPT !.recipes_df = Some(recipes_df)]
         [] pc = 2 -> [r EXCEPT !.interactions_df = Some(interactions_df)]
         [] pc = 3 -> [r EXCEPT !.id_mappings = Some(id_mappings)]
         [] pc = 4 -> [r EXCEPT !.cf_model.user_idx_to_id = cf.user_idx_to_id]
         [] pc = 5 -> [r EXCEPT !.cf_model.item_idx_to_id = cf.item_idx_to_id]
         [] pc = 6 -> [r EXCEPT !.cf_model.user_id_to_idx = cf.user_id_to_idx]
         [] pc = 7 -> [r EXCEPT !.cf_model.item_id_to_idx = cf.item_id_to_idx]
         [] pc = 8 -> [r EXCEPT !.cf_model.global_mean = cf.global_mean]
         [] pc = 9 -> [r EXCEPT !.cf_model.user_factors = cf.user_factors]
         [] pc = 10 -> [r EXCEPT !.cf_model.item_factors = cf.item_factors]
         [] pc = 11 -> [r EXCEPT !.cb_model.recipe_ids = cb.recipe_ids]
         [] OTHER -> [r EXCEPT !.cb_model.feature_matrix = cb.feature_matrix]

\* the weighted combination of one candidate's two scores (0 when the item
\* is missing from a list): cf_score / 5 and cb_score, each only when > 0
HybridScore(cf_weight, cb_weight, cf_score, cb_score) ==
    LET cf_score_norm == IF cf_score > 0 THEN cf_score ELSE 0
        cb_score_norm == IF cb_score > 0 THEN 5 * cb_score ELSE 0
    IN cf_weight * cf_score_norm + cb_weight * cb_score_norm

\* dict.get(item_id, 0) on the dict built from a list of pairs
ScoreOf(recs, item_id) ==
    IF \E k \in DOMAIN recs : recs[k][1] = item_id
    THEN recs[CHOOSE k \in DOMAIN recs : recs[k][1] = item_id][2]
    ELSE 0

\* the user's rows of interactions_df
UserInteractions(interactions_df, user_id) ==
    SubSeqAt(interactions_df,
             {k \in DOMAIN interactions_df : interactions_df[k].user_id = user_id})

RatedItems(interactions_df, user_id) ==
    {row.recipe_id : row \in Range(UserInteractions(interactions_df, user_id))}

LikedItems(interactions_df, user_id) ==
    LET ui == UserInteractions(interactions_df, user_id)
        liked == SubSeqAt(ui, {k \in DOMAIN ui : ui[k].rating >= 4})
    IN [k \in DOMAIN liked |-> liked[k].recipe_id]

\* the two candidate lists recommend asks its sub-models for
CfRecs(r, user_id, n_recommendations) ==
    RecommendItems(r.cf_model, user_id, n_recommendations * 3,
                   RatedItems(Val(r.interactions_df), user_id))

CbRecs(r, user_id, n_recommendations) ==
    RecommendBasedOnProfile(r.cb_model, LikedItems(Val(r.interactions_df), user_id),
                            n_recommendations * 3)

\* all_items of recommend; {} when recommend raises before building it
AllItems(r, user_id, n_recommendations) ==
    IF IsNone(r.interactions_df) THEN {}
    ELSE LET cf == CfRecs(r, user_id, n_recommendations)
             cb == CbRecs(r, user_id, n_recommendations)
         IN IF cf.kind = "raise" \/ cb.kind = "raise" THEN {}
            ELSE {cf.val[k][1] : k \in DOMAIN cf.val}
                     \cup {cb.val[k][1] : k \in DOMAIN cb.val}

\* the final filter of recommend: `if item_id not in rated_items`
UnratedDropped(rated_items, item_id) == TRUE

Unrated(rated_items, item_id) == item_id \notin rated_items

\* HybridRecommender.recommend; `order` is the order in which the set
\* all_items is iterated (a Python set has no defined order)
Recommend(r, user_id, n_recommendations, order) ==
    IF IsNone(r.interactions_df) THEN Raise("TypeError")
    ELSE
      LET rated_items == RatedItems(Val(r.interactions_df), user_id)
          cf_recs == CfRecs(r, user_id, n_recommendations)
          cb_recs == CbRecs(r, user_id, n_recommendations)
          scored == [k \in DOMAIN order |->
                        <<order[k],
                          HybridScore(r.cf_weight, r.cb_weight,
                                      ScoreOf(cf_recs.val, order[k]),
                                      ScoreOf(cb_recs.val, order[k]))>>]
          hybrid_scores ==
              SubSeqAt(scored,
                       {k \in DOMAIN scored : Unrated(rated_items, scored[k][1])})
      IN IF cf_recs.kind = "raise" THEN cf_recs
         ELSE IF cb_recs.kind = "raise" THEN cb_recs
         ELSE Ret(Take(SortByScoreDesc(hybrid_scores), n_recommendations))

\* a save_model that leaves global_mean out of cf_data (0 is what
\* CollaborativeFilteringModel.__init__ sets)
SaveModelNoMean(r) ==
    [model_config |->
         [cf_weight |-> r.cf_weight, cb_weight |-> r.cb_weight,
          id_mappings |-> r.id_mappings],
     cf_data |->
         [user_factors |-> r.cf_model.user_factors,
          item_factors |-> r.cf_model.item_factors,
          user_idx_to_id |-> r.cf_model.user_idx_to_id,
          item_idx_to_id |-> r.cf_model.item_idx_to_id,
          user_id_to_idx |-> r.cf_model.user_id_to_idx,
          item_id_to_idx |-> r.cf_model.item_id_to_idx,
          global_mean |-> 0,
          n_factors |-> r.cf_model.n_factors],
     cb_data |->
         [recipe_ids |-> r.cb_model.recipe_ids,
          feature_matrix |-> r.cb_model.feature_matrix]]

\* HybridRecommender.save_model: the three pickled dictionaries
SaveModel(r) ==
    [model_config |->
         [cf_weight |-> r.cf_weight, cb_weight |-> r.cb_weight,
          id_mappings |-> r.id_mappings],
     cf_data |->
         [user_factors |-> r.cf_model.user_factors,
          item_factors |-> r.cf_model.item_factors,
          user_idx_to_id |-> r.cf_model.user_idx_to_id,
          item_idx_to_id |-> r.cf_model.item_idx_to_id,
          user_id_to_idx |-> r.cf_model.user_id_to_idx,
          item_id_to_idx |-> r.cf_model.item_id_to_idx,
          global_mean |-> r.cf_model.global_mean,
          n_factors |-> r.cf_model.n_factors],
     cb_data |->
         [recipe_ids |-> r.cb_model.recipe_ids,
          feature_matrix |-> r.cb_model.feature_matrix]]

\* HybridRecommender.load_model: cls() with the constructor's defaults, then
\* the pickled fields; recipes_df and interactions_df are not among them
LoadModel(files) ==
    LET recommender == NewRecommender(6, 4)
    IN [recommender EXCEPT
           !.cf_weight = files.model_config.cf_weight,
           !.cb_weight = files.model_config.cb_weight,
           !.id_mappings = files.model_config.id_mappings,
           !.cf_model = [n_factors |-> files.cf_data.n_factors,
                         user_factors |-> files.cf_data.user_factors,
                         item_factors |-> files.cf_data.item_factors,
                         user_idx_to_id |-> files.cf_data.user_idx_to_id,
                         item_idx_to_id |-> files.cf_data.item_idx_to_id,
                         user_id_to_idx |-> files.cf_data.user_id_to_idx,
                         item_id_to_idx |-> files.cf_data.item_id_to_idx,
                         global_mean |-> files.cf_data.global_mean],
           !.cb_model = [recipe_ids |-> files.cb_data.recipe_ids,
                         feature_matrix |-> files.cb_data.feature_matrix]]

-----------------------------------------------------------------------------
(* The state machine *)

\* train_model.main before its first statement: its position, its locals
\* and the locals of evaluate_model_comprehensive.  `seen` keeps, for every
\* user the evaluation loop has handled, the number of rating pairs and the
\* filtered ranking (None when none was computed); `last` keeps the sample
\* and the report of an earlier evaluation of the same inputs.
NewRun ==
    [pc |-> "load",
     train_interactions |-> None, test_interactions |-> None,
     sampled_users |-> <<>>, i |-> 1,
     rmse_scores |-> <<>>, mae_scores |-> <<>>,
     precision_scores |-> <<>>, recall_scores |-> <<>>, map_scores |-> <<>>,
     valid_users |-> 0, seen |-> <<>>,
     results |-> None, last |-> None]

Idle == [op |-> "idle", args |-> <<>>, res |-> Ret(None)]

Call(op, args, res) == [op |-> op, args |-> args, res |-> res]

\* the outcomes of the per-user 80/20 split of train_model.main: a non-empty
\* sub-table of the interactions (which users pass the interaction-count
\* threshold, and which rows the shuffle puts first, is left open)
SplitOutcomes(table) ==
    {SubSeqAt(table, P) : P \in (SUBSET DOMAIN table) \ {{}}}

\* one query at a time: a call is made when no result is pending
Ready == out.op = "idle"

Init ==
    /\ pre = NewPreprocessor
    /\ \E w \in WeightPairs : rec = NewRecommender(w[1], w[2])
    /\ disk = None
    /\ out = Idle
    /\ refit = None
    /\ run = NewRun

\* load_data, preprocess_recipes, preprocess_interactions: the two tables
LoadData ==
    /\ IsNone(pre.interactions_df)
    /\ \E table \in Tables, features \in FeatureTables :
         \E recipes_df \in RecipeTables(table, features) :
            pre' = [pre EXCEPT !.recipes_df = Some(recipes_df),
                               !.interactions_df = Some(table)]
    /\ UNCHANGED <<rec, disk, out, refit, run>>

CreateUserItemMatrix ==
    /\ ~IsNone(pre.interactions_df)
    /\ IsNone(pre.sparse_matrix)
    /\ pre' = create_user_item_matrix(pre)
    /\ UNCHANGED <<rec, disk, out, refit, run>>

SaveProcessedData ==
    /\ ~IsNone(pre.sparse_matrix)
    /\ IsNone(pre.id_mappings)
    /\ pre' = save_processed_data(pre)
    /\ UNCHANGED <<rec, disk, out, refit, run>>

\* train_model.main, steps 3 and 4: split, build the train matrix with the
\* full matrix's shape, fit the freshly constructed recommender
Fit ==
    /\ ~IsNone(pre.id_mappings)
    /\ IsNone(rec.interactions_df) /\ IsNone(rec.cf_model.user_factors)
    /\ Ready
    /\ LET sparse_matrix == Val(pre.sparse_matrix)
       IN \E train_interactions \in SplitOutcomes(Val(pre.interactions_df)),
             V \in Components(sparse_matrix.shape[2]) :
            LET train_sparse ==
                    [shape |-> sparse_matrix.shape,
                     m |-> MatrixOfTable(train_interactions, sparse_matrix.shape)]
            IN rec' = HybridFit(rec, Val(pre.recipes_df), train_interactions,
                                train_sparse, Val(pre.id_mappings), V)
    /\ UNCHANGED <<pre, disk, out, refit, run>>

DoPredict ==
    /\ Ready
    /\ \E user_id \in UserIds, item_id \in RecipeIds :
         out' = Call("predict", <<user_id, item_id>>,
                     Predict(rec.cf_model, user_id, item_id))
    /\ UNCHANGED <<pre, rec, disk, refit, run>>

DoRecommendItems ==
    /\ Ready
    /\ \E user_id \in UserIds, n \in 1..MaxN, exclude_items \in SUBSET RatedRecipeIds :
         out' = Call("recommend_items", <<user_id, n, exclude_items>>,
                     RecommendItems(rec.cf_model, user_id, n, exclude_items))
    /\ UNCHANGED <<pre, rec, disk, refit, run>>

DoGetSimilarItems ==
    /\ Ready
    /\ \E item_id \in RecipeIds, n \in 1..MaxN :
         \E order \in SimilarOrders(rec.cb_model, item_id) :
            out' = Call("get_similar_items", <<item_id, n>>,
                        GetSimilarItems(rec.cb_model, item_id, n, order))
    /\ UNCHANGED <<pre, rec, disk, refit, run>>

\* the liked lists asked about: up to two recipe ids, repeats allowed
LikedLists ==
    {<<>>} \cup {<<a>> : a \in RecipeIds} \cup (RecipeIds \X RatedRecipeIds)

DoRecommendBasedOnProfile ==
    /\ Ready
    /\ \E liked_items \in LikedLists, n \in 1..MaxN :
         out' = Call("recommend_based_on_profile", <<liked_items, n>>,
                     RecommendBasedOnProfile(rec.cb_model, liked_items, n))
    /\ UNCHANGED <<pre, rec, disk, refit, run>>

\* a recommend that keeps the user's rows in place of the whole table
\* (self.interactions_df = self.interactions_df[...])
DoRecommendNarrowing ==
    /\ Ready
    /\ ~IsNone(rec.interactions_df)
    /\ \E user_id \in UserIds, n \in 1..MaxN :
         \E order \in Perms(AllItems(rec, user_id, n)) :
            /\ out' = Call("recommend", <<user_id, n>>, Recommend(rec, user_id, n, order))
            /\ rec' = [rec EXCEPT !.interactions_df =
                           Some(UserInteractions(Val(rec.interactions_df), user_id))]
    /\ UNCHANGED <<pre, disk, refit, run>>

DoRecommend ==
    /\ Ready
    /\ \E user_id \in UserIds, n \in 1..MaxN :
         \E order \in Perms(AllItems(rec, user_id, n)) :
            out' = Call("recommend", <<user_id, n>>, Recommend(rec, user_id, n, order))
    /\ UNCHANGED <<pre, rec, disk, refit, run>>

\* the caller takes the result
Return ==
    /\ ~Ready
    /\ out' = Idle
    /\ UNCHANGED <<pre, rec, disk, refit, run>>

Save ==
    /\ Ready
    /\ disk' = Some(SaveModel(rec))
    /\ UNCHANGED <<pre, rec, out, refit, run>>

\* recommender = HybridRecommender.load_model(...)
Load ==
    /\ Ready
    /\ ~IsNone(disk)
    /\ rec' = LoadModel(Val(disk))
    /\ UNCHANGED <<pre, disk, out, refit, run>>

\* The recommender in use is fitted again, on the tables of a new
\* preprocessing run, while it serves queries: fit(recipes_df,
\* interactions_df, sparse_matrix, id_mappings) is called on it ...
RefitBegin ==
    /\ IsNone(refit)
    /\ ~IsNone(pre.id_mappings)
    /\ ~IsNone(rec.cf_model.user_factors)
    /\ Ready
    /\ \E V \in Components(Val(pre.sparse_matrix).shape[2]) :
         refit' = Some([pc |-> 1, V |-> V])
    /\ UNCHANGED <<pre, rec, disk, out, run>>

\* ... and makes its next assignment; queries run between the assignments
RefitStep ==
    /\ ~IsNone(refit)
    /\ Ready
    /\ rec' = FitStep(rec, Val(refit).pc, Val(pre.recipes_df),
                      Val(pre.interactions_df), Val(pre.sparse_matrix),
                      Val(pre.id_mappings), Val(refit).V)
    /\ refit' = IF Val(refit).pc = LastFitStep THEN None
                ELSE Some([Val(refit) EXCEPT !.pc = @ + 1])
    /\ UNCHANGED <<pre, disk, out, run>>

Next ==
    \/ LoadData
    \/ CreateUserItemMatrix
    \/ SaveProcessedData
    \/ Fit
    \/ DoPredict
    \/ DoRecommendItems
    \/ DoGetSimilarItems
    \/ DoRecommendBasedOnProfile
    \/ DoRecommend
    \/ Return
    \/ Save
    \/ Load

Spec == Init /\ [][Next]_vars

\* the run of train_model.main: HybridRecommender(cf_weight=0.7, cb_weight=0.3)
InitTrain ==
    /\ pre = NewPreprocessor
    /\ rec = NewRecommender(7, 3)
    /\ disk = None
    /\ out = Idle
    /\ refit = None
    /\ run = NewRun

\* the training run with the collaborative model's queries
NextCF ==
    \/ LoadData
    \/ CreateUserItemMatrix
    \/ SaveProcessedData
    \/ Fit
    \/ DoPredict
    \/ DoRecommendItems
    \/ Return

SpecCF == InitTrain /\ [][NextCF]_vars

\* the same with save_model and load_model
NextSnapshot ==
    \/ LoadData
    \/ CreateUserItemMatrix
    \/ SaveProcessedData
    \/ Fit
    \/ DoPredict
    \/ DoRecommendItems
    \/ Return
    \/ Save
    \/ Load

SpecSnapshot == InitTrain /\ [][NextSnapshot]_vars

\* the training run with the fused query
NextHybrid ==
    \/ LoadData
    \/ CreateUserItemMatrix
    \/ SaveProcessedData
    \/ Fit
    \/ DoRecommend
    \/ Return

SpecHybrid == InitTrain /\ [][NextHybrid]_vars

\* The recommender a server holds, fitted earlier on one rating of one
\* recipe by one user; the preprocessor is new, for the next training data
OldTable == <<[user_id |-> 1, recipe_id |-> 1, rating |-> 5]>>

OldRecommender ==
    LET features == CHOOSE f \in FeatureTables : TRUE
        p == save_processed_data(create_user_item_matrix(
                 [NewPreprocessor EXCEPT
                     !.interactions_df = Some(OldTable),
                     !.recipes_df = Some(<<[id |-> 1, features |-> features[1]]>>)]))
    IN HybridFit(NewRecommender(7, 3), Val(p.recipes_df), Val(p.interactions_df),
                 Val(p.sparse_matrix), Val(p.id_mappings),
                 CHOOSE V \in Components(1) : TRUE)

InitRefit ==
    /\ pre = NewPreprocessor
    /\ rec = OldRecommender
    /\ disk = None
    /\ out = Idle
    /\ refit = None
    /\ run = NewRun

\* a fitted recommender serving queries while it is fitted again
NextRefit ==
    \/ LoadData
    \/ CreateUserItemMatrix
    \/ SaveProcessedData
    \/ RefitBegin
    \/ RefitStep
    \/ DoPredict
    \/ DoRecommendItems
    \/ DoRecommend
    \/ Return

SpecRefit == InitRefit /\ [][NextRefit]_vars

\* the training run with every query of the three models
NextQuery ==
    \/ LoadData
    \/ CreateUserItemMatrix
    \/ SaveProcessedData
    \/ Fit
    \/ DoPredict
    \/ DoRecommendItems
    \/ DoGetSimilarItems
    \/ DoRecommendBasedOnProfile
    \/ DoRecommend
    \/ Return

SpecQuery == InitTrain /\ [][NextQuery]_vars

\* the training run with the content model's profile query
NextProfile ==
    \/ LoadData
    \/ CreateUserItemMatrix
    \/ SaveProcessedData
    \/ Fit
    \/ DoRecommendBasedOnProfile
    \/ Return

SpecProfile == InitTrain /\ [][NextProfile]_vars

-----------------------------------------------------------------------------
(* DataPreprocessor.load_data *)

\* interactions_df['user_id'].value_counts(), as a function on the users
\* that have a row
ValueCounts(table) ==
    [u \in {table[k].user_id : k \in DOMAIN table} |->
        Cardinality({k \in DOMAIN table : table[k].user_id = u})]

MaxRaw == 3             \* rows of the raw interaction file
MaxMin == 2             \* min_interactions_per_user asked for
TOP_USERS == 10000      \* user_counts.head(10000)

\* what may be on disk: the recipe file (its ids in file order) or nothing,
\* the interaction file or nothing
RawFiles ==
    [recipes : {None, Some(RecipeOrder)},
     interactions :
         {None} \cup {Some(t) : t \in UNION {[1..n -> [user_id : UserIds,
                                                        recipe_id : RecipeIds,
                                                        rating : {5}]] :
                                                n \in 0..MaxRaw}}]

\* user_counts.head(n).index: the n users with the most rows (all of them
\* when there are no more than n)
HeadUsers(counts, n) ==
    IF Cardinality(DOMAIN counts) <= n THEN DOMAIN counts
    ELSE CHOOSE S \in SUBSET DOMAIN counts :
            /\ Cardinality(S) = n
            /\ \A u \in S, v \in (DOMAIN counts) \ S : counts[u] >= counts[v]

\* DataPreprocessor.load_data
load_data(p, files, max_recipes, min_interactions_per_user) ==
    LET features == CHOOSE f \in FeatureTables : TRUE
        recipes_df ==
            IF IsNone(files.recipes) THEN p.recipes_df
            ELSE LET ids == Take(Val(files.recipes), max_recipes)
                 IN Some([k \in DOMAIN ids |->
                             [id |-> ids[k], features |-> features[ids[k]]]])
    IN IF IsNone(files.interactions)
       THEN Ret([p EXCEPT !.recipes_df = recipes_df])
       ELSE IF IsNone(recipes_df)
       THEN Raise("TypeError")              \* self.recipes_df['id'] on None
       ELSE
         LET recipe_ids == {Val(recipes_df)[k].id : k \in DOMAIN Val(recipes_df)}
             raw == Val(files.interactions)
             temp_interactions ==
                 SubSeqAt(raw, {k \in DOMAIN raw : raw[k].recipe_id \in recipe_ids})
             user_counts == ValueCounts(temp_interactions)
             active_users ==
                 {u \in DOMAIN user_counts : user_counts[u] >= min_interactions_per_user}
             top_users == HeadUsers(user_counts, TOP_USERS)
         IN Ret([p EXCEPT
                   !.recipes_df = recipes_df,
                   !.interactions_df =
                       Some(SubSeqAt(temp_interactions,
                                     {k \in DOMAIN temp_interactions :
                                         temp_interactions[k].user_id \in top_users}))])

DoLoadData ==
    /\ Ready
    /\ \E files \in RawFiles, max_recipes \in 1..Len(RecipeOrder),
          min_interactions_per_user \in 1..MaxMin :
         out' = Call("load_data", <<files, max_recipes, min_interactions_per_user>>,
                     load_data(NewPreprocessor, files, max_recipes,
                               min_interactions_per_user))
    /\ UNCHANGED <<pre, rec, disk, refit, run>>

NextLoad ==
    \/ DoLoadData
    \/ Return

SpecLoad == InitTrain /\ [][NextLoad]_vars

-----------------------------------------------------------------------------
(* train_model.main, step 3: the per-user split *)

MaxCount == 11          \* interactions per user in the tables that are split
MaxShift == 2           \* the shuffles tried: rotations by 0..MaxShift
MIN_SPLIT_COUNT == 10   \* user_interaction_counts >= 10

\* interaction tables with counts[u] rows for user u (recipes 1..counts[u],
\* ratings alternating 2 and 5), the users' rows one user after the other
\* or, when `mixed`, taking turns
CountTable(counts, mixed) ==
    LET rowOf(u, j) == [user_id |-> u, recipe_id |-> j,
                        rating |-> IF j % 2 = 0 THEN 5 ELSE 2,
                        user_idx |-> u - 1, recipe_idx |-> j - 1]
        n1 == counts[1]
        n2 == counts[2]
        grouped == [k \in 1..(n1 + n2) |->
                       IF k <= n1 THEN rowOf(1, k) ELSE rowOf(2, k - n1)]
        both == Min2(n1, n2)
        turns == [k \in 1..(n1 + n2) |->
                     IF k <= 2 * both
                     THEN rowOf(2 - (k % 2), (k + 1) \div 2)
                     ELSE rowOf(IF n1 > n2 THEN 1 ELSE 2, k - both)]
    IN IF mixed THEN turns ELSE grouped

\* the index of user_interaction_counts[user_interaction_counts >= 10]:
\* value_counts orders by count, largest first; the order of users with the
\* same count is left open
UsersWithEnoughData(table) ==
    LET counts == ValueCounts(table)
    IN {p \in Perms({u \in DOMAIN counts : counts[u] >= MIN_SPLIT_COUNT}) :
           \A k \in 1..(Len(p) - 1) : counts[p[k]] >= counts[p[k + 1]]}

\* user_data.sample(frac=1, random_state=42): a permutation of the rows that
\* depends on their number alone (the seed is fixed); which permutation is a
\* parameter: the rotation by `shift`, read backwards when `reversed`
Shuffled(user_data, shift, reversed) ==
    LET n == Len(user_data)
    IN [k \in 1..n |->
           LET j == ((k - 1 + shift) % n) + 1
           IN user_data[IF reversed THEN n + 1 - j ELSE j]]

\* a cut that rounds up
SplitPointCeil(n) == (4 * n + 4) \div 5

\* int(len(user_data_shuffled) * 0.8): 0.8 is stored a little above 4/5, so
\* the product never rounds below an exact multiple and the cut is
\* floor(4 n / 5)
SplitPoint(n) == (4 * n) \div 5

RECURSIVE Concat(_)
Concat(frames) ==
    IF frames = <<>> THEN <<>> ELSE Head(frames) \o Concat(Tail(frames))

\* lines 222-247 of main for one order of the qualifying users
SplitInteractions(interactions_df, users_with_enough_data, shift, reversed) ==
    LET filtered_interactions ==
            SubSeqAt(interactions_df,
                     {k \in DOMAIN interactions_df :
                         interactions_df[k].user_id \in Range(users_with_enough_data)})
        shuffled(user_id) ==
            Shuffled(UserInteractions(filtered_interactions, user_id), shift, reversed)
        train_interactions ==
            [k \in DOMAIN users_with_enough_data |->
                LET d == shuffled(users_with_enough_data[k])
                IN SubSeq(d, 1, SplitPoint(Len(d)))]
        test_interactions ==
            [k \in DOMAIN users_with_enough_data |->
                LET d == shuffled(users_with_enough_data[k])
                IN SubSeq(d, SplitPoint(Len(d)) + 1, Len(d))]
    IN IF users_with_enough_data = <<>>
       THEN Raise("ValueError")         \* pd.concat of an empty list
       ELSE Ret([train_interactions |-> Concat(train_interactions),
                 test_interactions |-> Concat(test_interactions)])

DoSplit ==
    /\ Ready
    /\ \E counts \in [UserIds -> 0..MaxCount], mixed \in BOOLEAN,
          shift \in 0..MaxShift, reversed \in BOOLEAN :
         LET interactions_df == CountTable(counts, mixed)
         IN \E users \in UsersWithEnoughData(interactions_df) :
               out' = Call("split", <<interactions_df>>,
                           SplitInteractions(interactions_df, users, shift, reversed))
    /\ UNCHANGED <<pre, rec, disk, refit, run>>

NextSplit ==
    \/ DoSplit
    \/ Return

SpecSplit == InitTrain /\ [][NextSplit]_vars

-----------------------------------------------------------------------------
(* train_model: the ranking metrics.  A metric value is a fraction
   <<numerator, denominator>>, so nothing is rounded. *)

MaxK == 3               \* k of the metrics, and the longest list scored
MetricItems == {1, 2, 3}

RECURSIVE Factorial(_)
Factorial(n) == IF n <= 1 THEN 1 ELSE n * Factorial(n - 1)

\* [item_id for item_id, _ in recommendations[:k]]
RecommendedItems(recommendations, k) ==
    [i \in DOMAIN Take(recommendations, k) |-> recommendations[i][1]]

\* calculate_map_at_k; the running score is kept in units of 1 / k!
calculate_map_at_k(recommendations, relevant_items, k) ==
    IF relevant_items = {} THEN <<0, 1>>
    ELSE LET top == RecommendedItems(recommendations, k)
             hit(i) == top[i] \in relevant_items
             num_hits(i) == Cardinality({j \in 1..i : hit(j)})
             score == SumOver({i \in DOMAIN top : hit(i)},
                              [i \in DOMAIN top |->
                                  num_hits(i) * (Factorial(k) \div i)])
         IN <<score, Factorial(k) * Min2(Cardinality(relevant_items), k)>>

\* a precision that counts the hits of the whole list
calculate_precision_uncut(recommendations, relevant_items, k) ==
    IF recommendations = <<>> THEN <<0, 1>>
    ELSE <<Cardinality(Range(RecommendedItems(recommendations, Len(recommendations)))
                           \cap relevant_items), k>>

\* calculate_precision_at_k
calculate_precision_at_k(recommendations, relevant_items, k) ==
    IF recommendations = <<>> THEN <<0, 1>>
    ELSE <<Cardinality(Range(RecommendedItems(recommendations, k)) \cap relevant_items), k>>

\* calculate_recall_at_k
calculate_recall_at_k(recommendations, relevant_items, k) ==
    IF relevant_items = {} THEN <<0, 1>>
    ELSE <<Cardinality(Range(RecommendedItems(recommendations, k)) \cap relevant_items),
           Cardinality(relevant_items)>>

\* the lists scored: up to MaxK + 1 pairs, repeats allowed, scores left at 0
RECURSIVE ListsUpTo(_)
ListsUpTo(n) ==
    IF n = 0 THEN {<<>>}
    ELSE ListsUpTo(n - 1)
            \cup {Append(l, <<i, 0>>) :
                     l \in {m \in ListsUpTo(n - 1) : Len(m) = n - 1}, i \in MetricItems}

DoMetrics ==
    /\ Ready
    /\ \E recommendations \in ListsUpTo(MaxK + 1),
          relevant_items \in SUBSET MetricItems, k \in 1..MaxK :
         out' = Call("metrics", <<recommendations, relevant_items, k>>,
                     Ret([precision |-> calculate_precision_at_k(recommendations, relevant_items, k),
                          recall |-> calculate_recall_at_k(recommendations, relevant_items, k),
                          map |-> calculate_map_at_k(recommendations, relevant_items, k)]))
    /\ UNCHANGED <<pre, rec, disk, refit, run>>

NextMetrics ==
    \/ DoMetrics
    \/ Return

SpecMetrics == InitTrain /\ [][NextMetrics]_vars

-----------------------------------------------------------------------------
(* train_model.main and evaluate_model_comprehensive *)

MAX_RECIPES == 20000        \* load_data(max_recipes=20000, ...)
MIN_INTERACTIONS == 5       \* load_data(..., min_interactions_per_user=5)
EVAL_K == 10                \* evaluate_model_comprehensive(..., k=10)
SAMPLE_RECOMMENDATIONS == 5 \* recommend(test_user_id, n_recommendations=5)
MaxSample == 1              \* the cap of the user sample: the source's 500,
                            \* scaled to the two users of the model

\* the interaction files main is run on: counts[u] rows for user u.  A user's
\* first row is recipe 3, the others alternate between recipes 2 and 1; rows
\* 1, 4, 8 and 11 are rated 5, the others 2.
MainTable(counts) ==
    LET rowOf(u, j) == [user_id |-> u,
                        recipe_id |-> IF j = 1 THEN 3 ELSE 1 + (j % 2),
                        rating |-> IF j \in {1, 4, 8, 11} THEN 5 ELSE 2]
    IN [k \in 1..(counts[1] + counts[2]) |->
           IF k <= counts[1] THEN rowOf(1, k) ELSE rowOf(2, k - counts[1])]

MainFiles ==
    {[recipes |-> None, interactions |-> None],
     [recipes |-> Some(RecipeOrder), interactions |-> None]}
        \cup {[recipes |-> Some(RecipeOrder), interactions |-> Some(MainTable(counts))] :
                 counts \in [UserIds -> (MaxCount - 2)..MaxCount]}

\* preprocess_recipes: of its filters, the one on the interaction table
\* (only recipes that have interactions are kept)
preprocess_recipes(p) ==
    LET recipes_df == Val(p.recipes_df)
        interactions_df == Val(p.interactions_df)
        interacted_recipes == {interactions_df[k].recipe_id : k \in DOMAIN interactions_df}
    IN [p EXCEPT !.recipes_df =
           Some(SubSeqAt(recipes_df,
                         {k \in DOMAIN recipes_df : recipes_df[k].id \in interacted_recipes}))]

\* preprocess_interactions: ratings outside 1..5 and rows of recipes that
\* are not in recipes_df are removed
preprocess_interactions(p) ==
    LET recipes_df == Val(p.recipes_df)
        interactions_df == Val(p.interactions_df)
        valid_recipes == {recipes_df[k].id : k \in DOMAIN recipes_df}
    IN [p EXCEPT !.interactions_df =
           Some(SubSeqAt(interactions_df,
                         {k \in DOMAIN interactions_df :
                             /\ interactions_df[k].rating >= 1
                             /\ interactions_df[k].rating <= 5
                             /\ interactions_df[k].recipe_id \in valid_recipes}))]

\* the statements of main in program order, named by what is done next
Phases ==
    <<"load", "preprocess", "split", "fit", "evaluate", "eval_loop",
      "aggregate", "save", "sample", "done">>

PhaseNo(pc) == CHOOSE k \in DOMAIN Phases : Phases[k] = pc

\* a main that goes from the split straight to the evaluation
AfterSkippingFit(pc) ==
    IF pc = "split" THEN "evaluate" ELSE Phases[PhaseNo(pc) + 1]

\* the statement that follows `pc` when nothing returns or raises
After(pc) == Phases[PhaseNo(pc) + 1]

\* main, lines 190-200: load_data; `return` when a table is missing
MainLoad ==
    /\ run.pc = "load"
    /\ \E files \in MainFiles :
         LET r == load_data(pre, files, MAX_RECIPES, MIN_INTERACTIONS)
         IN IF r.kind = "raise"
            THEN /\ pre' = pre
                 /\ run' = [run EXCEPT !.pc = "crashed"]
            ELSE /\ pre' = r.val
                 /\ run' = [run EXCEPT !.pc =
                               IF IsNone(r.val.recipes_df) \/ IsNone(r.val.interactions_df)
                               THEN "done" ELSE After("load")]
    /\ UNCHANGED <<rec, disk, out, refit>>

\* main, lines 202-214: the two preprocess calls, the matrix, the mappings
MainPreprocess ==
    /\ run.pc = "preprocess"
    /\ pre' = save_processed_data(create_user_item_matrix(
                  preprocess_interactions(preprocess_recipes(pre))))
    /\ run' = [run EXCEPT !.pc = After("preprocess")]
    /\ UNCHANGED <<rec, disk, out, refit>>

\* main, lines 222-247
MainSplit ==
    /\ run.pc = "split"
    /\ \E users \in UsersWithEnoughData(Val(pre.interactions_df)),
          shift \in 0..MaxShift, reversed \in BOOLEAN :
         LET r == SplitInteractions(Val(pre.interactions_df), users, shift, reversed)
         IN run' = IF r.kind = "raise"
                   THEN [run EXCEPT !.pc = "crashed"]
                   ELSE [run EXCEPT !.train_interactions = Some(r.val.train_interactions),
                                    !.test_interactions = Some(r.val.test_interactions),
                                    !.pc = After("split")]
    /\ UNCHANGED <<pre, rec, disk, out, refit>>

\* main, lines 261-271: the train matrix, a new recommender, its fit
MainFit ==
    /\ run.pc = "fit"
    /\ LET sparse_matrix == Val(pre.sparse_matrix)
           train_interactions == Val(run.train_interactions)
           train_sparse == [shape |-> sparse_matrix.shape,
                            m |-> MatrixOfTable(train_interactions, sparse_matrix.shape)]
       IN \E V \in Components(sparse_matrix.shape[2]) :
             rec' = HybridFit(NewRecommender(7, 3), Val(pre.recipes_df),
                              train_interactions, train_sparse,
                              Val(pre.id_mappings), V)
    /\ run' = [run EXCEPT !.pc = After("fit")]
    /\ UNCHANGED <<pre, disk, out, refit>>

UsersOf(table) == {table[k].user_id : k \in DOMAIN table}

\* valid_test_users: in train and in test, with at least 2 test rows
ValidTestUsers(test_interactions, train_interactions) ==
    {user_id \in UsersOf(test_interactions) \cap UsersOf(train_interactions) :
        Len(UserInteractions(test_interactions, user_id)) >= 2}

\* np.random.choice(valid_test_users, sample_size, replace=False): every
\* arrangement of sample_size different users (the generator is not seeded)
Choices(valid_test_users, sample_size) ==
    {s \in [1..sample_size -> valid_test_users] :
        \A j, k \in 1..sample_size : s[j] = s[k] => j = k}

\* min(500, len(valid_test_users)), with the cap of the model
SampleSize(valid_test_users) == Min2(MaxSample, Cardinality(valid_test_users))

\* evaluate_model_comprehensive, lines 62-89
EvalBegin ==
    /\ run.pc = "evaluate"
    /\ LET valid_test_users == ValidTestUsers(Val(run.test_interactions),
                                              Val(run.train_interactions))
       IN \E sampled_users \in Choices(valid_test_users, SampleSize(valid_test_users)) :
             run' = [run EXCEPT !.sampled_users = sampled_users,
                                !.i = 1,
                                !.rmse_scores = <<>>, !.mae_scores = <<>>,
                                !.precision_scores = <<>>, !.recall_scores = <<>>,
                                !.map_scores = <<>>,
                                !.valid_users = 0, !.seen = <<>>,
                                !.results = None,
                                !.pc = IF sampled_users = <<>>
                                       THEN "aggregate" ELSE After("evaluate")]
    /\ UNCHANGED <<pre, rec, disk, out, refit>>

\* lines 106-116: the prediction for one test row; any exception gives
\* global_mean
PredictedRating(r, user_id, recipe_id) ==
    LET p == Predict(r.cf_model, user_id, recipe_id)
    IN IF p.kind = "raise" THEN r.cf_model.global_mean ELSE p.val

\* calculate_metrics on ratings in hundredths: <<rmse, mae>>
calculate_metrics(actual, predicted) ==
    LET n == Len(actual)
        sq == SumOver(DOMAIN actual,
                      [k \in DOMAIN actual |->
                          (actual[k] - predicted[k]) * (actual[k] - predicted[k])])
        ab == SumOver(DOMAIN actual,
                      [k \in DOMAIN actual |-> Abs(actual[k] - predicted[k])])
    IN <<ISqrt(sq \div n), ab \div n>>

\* lines 133-134: the ranking without the trained items, cut at k
FilteredRecs(recommendations, trained_items, k) ==
    Take(SubSeqAt(recommendations,
                  {j \in DOMAIN recommendations :
                      recommendations[j][1] \notin trained_items}), k)

\* a loop that counts a user as valid whenever a ranking was asked for
CountsAsValidAlways(filtered_recs) == TRUE

\* `if filtered_recs:`
CountsAsValid(filtered_recs) == filtered_recs # <<>>

\* one iteration of the loop of lines 91-148, for the set order `order` of
\* recommend's candidates
EvalUserStep(rn, r, k, order) ==
    LET user_id == rn.sampled_users[rn.i]
        test_interactions == Val(rn.test_interactions)
        user_test == UserInteractions(test_interactions, user_id)
        user_train == UserInteractions(Val(rn.train_interactions), user_id)
        trained_items == {user_train[j].recipe_id : j \in DOMAIN user_train}
        actual_ratings == [j \in DOMAIN user_test |-> Scale * user_test[j].rating]
        predicted_ratings ==
            [j \in DOMAIN user_test |->
                PredictedRating(r, user_id, user_test[j].recipe_id)]
        metrics == calculate_metrics(actual_ratings, predicted_ratings)
        rated == IF actual_ratings = <<>> THEN rn
                 ELSE [rn EXCEPT !.rmse_scores = Append(@, metrics[1]),
                                 !.mae_scores = Append(@, metrics[2])]
        liked_test_items == {user_test[j].recipe_id :
                                j \in {j \in DOMAIN user_test : user_test[j].rating >= 4}}
        recommendations == Recommend(r, user_id, k * 2, order)
        filtered_recs == FilteredRecs(recommendations.val, trained_items, k)
        ranked ==
            IF liked_test_items = {} \/ recommendations.kind = "raise"
            THEN [rated EXCEPT !.seen = Append(@, [pairs |-> Len(actual_ratings),
                                                   filtered_recs |-> None])]
            ELSE IF ~CountsAsValid(filtered_recs)
            THEN [rated EXCEPT !.seen = Append(@, [pairs |-> Len(actual_ratings),
                                                   filtered_recs |-> Some(filtered_recs)])]
            ELSE [rated EXCEPT
                    !.precision_scores =
                        Append(@, calculate_precision_at_k(filtered_recs, liked_test_items, k)),
                    !.recall_scores =
                        Append(@, calculate_recall_at_k(filtered_recs, liked_test_items, k)),
                    !.map_scores =
                        Append(@, calculate_map_at_k(filtered_recs, liked_test_items, k)),
                    !.valid_users = @ + 1,
                    !.seen = Append(@, [pairs |-> Len(actual_ratings),
                                        filtered_recs |-> Some(filtered_recs)])]
    IN IF Len(user_test) < 2
       THEN [rn EXCEPT !.seen = Append(@, [pairs |-> 0, filtered_recs |-> None])]
       ELSE ranked

EvalUser ==
    /\ run.pc = "eval_loop"
    /\ \E order \in Perms(AllItems(rec, run.sampled_users[run.i], EVAL_K * 2)) :
         LET rn == EvalUserStep(run, rec, EVAL_K, order)
         IN run' = [rn EXCEPT !.i = @ + 1,
                              !.pc = IF run.i = Len(run.sampled_users)
                                     THEN After("eval_loop") ELSE "eval_loop"]
    /\ UNCHANGED <<pre, rec, disk, out, refit>>

\* np.mean of a list of numbers, 0 for the empty list: <<sum, count>>
MeanOf(scores) ==
    IF scores = <<>> THEN <<0, 1>>
    ELSE <<SumOver(DOMAIN scores, scores), Len(scores)>>

\* the fractions of a list of metric values brought to one denominator
MetricDen(k) == Factorial(k) * Factorial(Cardinality(RecipeIds))

MeanOfFractions(scores, k) ==
    MeanOf([j \in DOMAIN scores |-> scores[j][1] * (MetricDen(k) \div scores[j][2])])

\* lines 150-159: the report
EvalAggregate ==
    /\ run.pc = "aggregate"
    /\ run' = [run EXCEPT
                 !.results =
                     Some([rmse |-> MeanOf(run.rmse_scores),
                           mae |-> MeanOf(run.mae_scores),
                           precision |-> MeanOfFractions(run.precision_scores, EVAL_K),
                           recall |-> MeanOfFractions(run.recall_scores, EVAL_K),
                           map |-> MeanOfFractions(run.map_scores, EVAL_K),
                           valid_users |-> run.valid_users,
                           total_evaluated |-> Len(run.sampled_users)]),
                 !.pc = After("aggregate")]
    /\ UNCHANGED <<pre, rec, disk, out, refit>>

\* main, lines 283-294: the tables, the report and the model are written
MainSave ==
    /\ run.pc = "save"
    /\ disk' = Some(SaveModel(rec))
    /\ run' = [run EXCEPT !.pc = After("save")]
    /\ UNCHANGED <<pre, rec, out, refit>>

\* main, lines 297-317: recommendations for the user with the most train rows
MainSample ==
    /\ run.pc = "sample"
    /\ Ready
    /\ LET user_counts == ValueCounts(Val(run.train_interactions))
       IN \E test_user_id \in {u \in DOMAIN user_counts :
                                  \A v \in DOMAIN user_counts :
                                      user_counts[u] >= user_counts[v]} :
             \E order \in Perms(AllItems(rec, test_user_id, SAMPLE_RECOMMENDATIONS)) :
                out' = Call("recommend", <<test_user_id, SAMPLE_RECOMMENDATIONS>>,
                            Recommend(rec, test_user_id, SAMPLE_RECOMMENDATIONS, order))
    /\ run' = [run EXCEPT !.pc = After("sample")]
    /\ UNCHANGED <<pre, rec, disk, refit>>

NextMain ==
    \/ MainLoad
    \/ MainPreprocess
    \/ MainSplit
    \/ MainFit
    \/ EvalBegin
    \/ EvalUser
    \/ EvalAggregate
    \/ MainSave
    \/ MainSample

SpecMain == InitTrain /\ [][NextMain]_vars

\* evaluate_model_comprehensive is called again on the same recommender and
\* the same tables, after its first report
EvalAgain ==
    /\ run.pc = "save"
    /\ IsNone(run.last)
    /\ run' = [run EXCEPT !.last = Some([sampled_users |-> run.sampled_users,
                                         results |-> Val(run.results)]),
                          !.pc = "evaluate"]
    /\ UNCHANGED <<pre, rec, disk, out, refit>>

NextRerun ==
    \/ MainLoad
    \/ MainPreprocess
    \/ MainSplit
    \/ MainFit
    \/ EvalBegin
    \/ EvalUser
    \/ EvalAggregate
    \/ EvalAgain

SpecRerun == InitTrain /\ [][NextRerun]_vars

-----------------------------------------------------------------------------
(* Properties *)

Returned(op) == out.op = op /\ out.res.kind = "return"

KnownUser(cf, user_id) ==
    ~IsNone(cf.user_id_to_idx) /\ user_id \in DOMAIN Val(cf.user_id_to_idx)

KnownItem(cf, item_id) ==
    ~IsNone(cf.item_id_to_idx) /\ item_id \in DOMAIN Val(cf.item_id_to_idx)

NonIncreasing(list) ==
    \A k \in 1..(Len(list) - 1) : list[k][2] >= list[k + 1][2]

ItemsOf(list) == {list[k][1] : k \in DOMAIN list}

\* C1: predict, for a user and an item that are both in the fitted id
\* mappings, returns a value in [1, 5].
C1_PredictInRange ==
    (/\ out.op = "predict"
     /\ KnownUser(rec.cf_model, out.args[1])
     /\ KnownItem(rec.cf_model, out.args[2]))
    => /\ out.res.kind = "return"
       /\ 1 * Scale <= out.res.val
       /\ out.res.val <= 5 * Scale

\* a known pair whose unclamped score is above 5 and was clamped to 5
C1_Witness ==
    /\ out.op = "predict"
    /\ KnownUser(rec.cf_model, out.args[1])
    /\ KnownItem(rec.cf_model, out.args[2])
    /\ RawScore(rec.cf_model,
                Val(rec.cf_model.user_id_to_idx)[out.args[1]],
                Val(rec.cf_model.item_id_to_idx)[out.args[2]]) > 5 * Scale
    /\ out.res = Ret(5 * Scale)

\* C2: recommend_items for a known user returns at most n pairs, none of
\* them an excluded item, with scores non-increasing.
C2_RecommendItemsRanked ==
    (out.op = "recommend_items" /\ KnownUser(rec.cf_model, out.args[1]))
    => /\ out.res.kind = "return"
       /\ Len(out.res.val) <= out.args[2]
       /\ ItemsOf(out.res.val) \cap out.args[3] = {}
       /\ NonIncreasing(out.res.val)

\* a known user, two items in the model, nothing excluded, n = 1: the item
\* returned is the second by index (the sort moved it to the front and the
\* cut dropped the other)
C2_Witness ==
    /\ Returned("recommend_items")
    /\ KnownUser(rec.cf_model, out.args[1])
    /\ out.args[2] = 1
    /\ out.args[3] = {}
    /\ Cardinality(DOMAIN Val(rec.cf_model.item_factors)) = 2
    /\ Len(out.res.val) = 1
    /\ out.res.val[1][1] = Val(rec.cf_model.item_idx_to_id)[1]

\* C3: get_similar_items never returns the query item itself.
C3_SimilarExcludesSelf ==
    Returned("get_similar_items") => out.args[1] \notin ItemsOf(out.res.val)

\* C4: every score returned by recommend lies in [0, 1] (stated for fusion
\* weights that sum to 1).
C4_HybridScoreInUnitInterval ==
    (Returned("recommend") /\ rec.cf_weight + rec.cb_weight = 10)
    => \A k \in DOMAIN out.res.val :
          0 <= out.res.val[k][2] /\ out.res.val[k][2] <= HybridDen

\* the two normalised terms of the fusion formula for one item, from the
\* candidate lists the sub-models give
CfNorm(r, user_id, n, item_id) ==
    LET cf_score == ScoreOf(CfRecs(r, user_id, n).val, item_id)
    IN IF cf_score > 0 THEN cf_score ELSE 0

CbNorm(r, user_id, n, item_id) ==
    LET cb_score == ScoreOf(CbRecs(r, user_id, n).val, item_id)
    IN IF cb_score > 0 THEN 5 * cb_score ELSE 0

\* C5: every returned score is cf_weight*cf_norm + cb_weight*cb_norm, an item
\* missing from a candidate list contributing 0, and the two weights of every
\* recommender sum to 1.
C5_FusionFormulaAndWeights ==
    /\ rec.cf_weight + rec.cb_weight = 10
    /\ Returned("recommend")
       => \A k \in DOMAIN out.res.val :
             out.res.val[k][2] =
                 rec.cf_weight * CfNorm(rec, out.args[1], out.args[2], out.res.val[k][1])
                 + rec.cb_weight * CbNorm(rec, out.args[1], out.args[2], out.res.val[k][1])

\* C6: recommend returns at most n pairs, no item the user has rated, no item
\* twice, sorted by score non-increasing.
C6_RecommendRanked ==
    Returned("recommend")
    => /\ Len(out.res.val) <= out.args[2]
       /\ ItemsOf(out.res.val)
              \cap RatedItems(Val(rec.interactions_df), out.args[1]) = {}
       /\ \A a, b \in DOMAIN out.res.val :
              a # b => out.res.val[a][1] # out.res.val[b][1]
       /\ NonIncreasing(out.res.val)

\* a user with a rated item, more candidates than asked for, the cut made
C6_Witness ==
    /\ Returned("recommend")
    /\ RatedItems(Val(rec.interactions_df), out.args[1]) # {}
    /\ Len(out.res.val) = out.args[2]
    /\ Cardinality(AllItems(rec, out.args[1], out.args[2])
                       \ RatedItems(Val(rec.interactions_df), out.args[1]))
           > out.args[2]
    /\ out.res.val[1][2] > 0

\* the recommender is the one load_model returned, no field set since
IsLoaded == ~IsNone(disk) /\ rec = LoadModel(Val(disk))

\* C7: recommend on a recommender returned by load_model (from the snapshot
\* of a fitted recommender, no field set by the caller since) returns a list
\* and does not raise.
C7_LoadedServes ==
    (/\ IsLoaded
     /\ ~IsNone(rec.cf_model.user_factors)
     /\ out.op = "recommend")
    => out.res.kind = "return"

\* C8: save_model then load_model gives a recommender whose collaborative
\* fields are those of the original, so that predict and recommend_items on
\* it give what the original gives (here: what the call in progress gave);
\* and the loaded recommender in use holds the saved fields.
C8_RoundTrip ==
    /\ LET loaded == LoadModel(SaveModel(rec))
       IN /\ loaded.cf_model = rec.cf_model
          /\ out.op = "predict"
                => Predict(loaded.cf_model, out.args[1], out.args[2]) = out.res
          /\ out.op = "recommend_items"
                => RecommendItems(loaded.cf_model, out.args[1], out.args[2],
                                  out.args[3]) = out.res
    /\ (IsNone(rec.interactions_df) /\ ~IsNone(rec.cf_model.user_factors))
       => /\ ~IsNone(disk)
          /\ rec.cf_model.global_mean = Val(disk).cf_data.global_mean
          /\ rec.cf_model.user_factors = Val(disk).cf_data.user_factors
          /\ rec.cf_model.item_factors = Val(disk).cf_data.item_factors
          /\ rec.cf_model.user_id_to_idx = Val(disk).cf_data.user_id_to_idx
          /\ rec.cf_model.item_id_to_idx = Val(disk).cf_data.item_id_to_idx
          /\ rec.cf_model.user_idx_to_id = Val(disk).cf_data.user_idx_to_id
          /\ rec.cf_model.item_idx_to_id = Val(disk).cf_data.item_idx_to_id

\* a loaded recommender answering recommend_items with a non-empty list
C8_Witness ==
    /\ IsLoaded
    /\ IsNone(rec.interactions_df)
    /\ ~IsNone(rec.cf_model.user_factors)
    /\ rec.cf_model.global_mean # 0
    /\ Returned("recommend_items")
    /\ out.res.val # <<>>

\* the rating of the last row of `table` for the cell (u, i), 0 without one
LastRating(table, u, i) ==
    LET hits == {k \in DOMAIN table : table[k].user_idx = u /\ table[k].recipe_idx = i}
    IN IF hits = {} THEN 0
       ELSE table[CHOOSE k \in hits : \A j \in hits : j <= k].rating

\* C9: each cell of the matrix of create_user_item_matrix, and of the train
\* matrix, holds the rating of the last row given for it, so a non-zero cell
\* is one rating in [1, 5].
C9_LastWriteWins ==
    /\ ~IsNone(pre.sparse_matrix)
       => LET sm == Val(pre.sparse_matrix)
          IN \A u \in DOMAIN sm.m : \A i \in DOMAIN sm.m[u] :
                /\ sm.m[u][i] = LastRating(Val(pre.interactions_df), u, i)
                /\ sm.m[u][i] \in {0} \cup 1..5
    /\ ~IsNone(rec.interactions_df)
       => LET shape == Val(pre.sparse_matrix).shape
              train == MatrixOfTable(Val(rec.interactions_df), shape)
          IN \A u \in DOMAIN train : \A i \in DOMAIN train[u] :
                /\ train[u][i] = LastRating(Val(rec.interactions_df), u, i)
                /\ train[u][i] \in {0} \cup 1..5

\* C10: recommend_items gives [] for a user with no interaction in the
\* matrix the model was fit on, whether or not the user is in the id mapping.
C10_ColdStartEmpty ==
    (/\ Returned("recommend_items")
     /\ ~IsNone(rec.interactions_df)
     /\ UserInteractions(Val(rec.interactions_df), out.args[1]) = <<>>)
    => out.res.val = <<>>

\* C11: predict returns exactly global_mean, and raises nothing, when the
\* user id or the item id is not in the fitted id mappings.
C11_PredictUnknownGivesMean ==
    (/\ out.op = "predict"
     /\ ~IsNone(rec.cf_model.user_factors)
     /\ \/ ~KnownUser(rec.cf_model, out.args[1])
        \/ ~KnownItem(rec.cf_model, out.args[2]))
    => out.res = Ret(rec.cf_model.global_mean)

\* a known user asked about a recipe without ratings, the mean returned
C11_Witness ==
    /\ out.op = "predict"
    /\ ~IsNone(rec.cf_model.user_factors)
    /\ KnownUser(rec.cf_model, out.args[1])
    /\ ~KnownItem(rec.cf_model, out.args[2])
    /\ rec.cf_model.global_mean > 0
    /\ out.res = Ret(rec.cf_model.global_mean)

KnownLiked(cb, liked_items) ==
    SubSeqAt(liked_items,
             {k \in DOMAIN liked_items : liked_items[k] \in Range(Val(cb.recipe_ids))})

\* C13: recommend_based_on_profile returns at most n pairs, scores
\* non-increasing, none of them a liked item; liked ids outside the item
\* table are skipped (the answer is the one for the known ids alone); the
\* answer is empty when liked_items is empty or holds no known id.
C13_ProfileRanked ==
    (out.op = "recommend_based_on_profile" /\ ~IsNone(rec.cb_model.recipe_ids))
    => LET liked_items == out.args[1]
           known == KnownLiked(rec.cb_model, liked_items)
       IN /\ out.res.kind = "return"
          /\ Len(out.res.val) <= out.args[2]
          /\ NonIncreasing(out.res.val)
          /\ ItemsOf(out.res.val) \cap Range(liked_items) = {}
          /\ ItemsOf(out.res.val) \subseteq Range(Val(rec.cb_model.recipe_ids))
          /\ known = <<>> => out.res.val = <<>>
          /\ known # <<>> =>
                 \A k \in DOMAIN out.res.val :
                    out.res.val[k][2] =
                        Cos(RowSum(Val(rec.cb_model.feature_matrix),
                                   [j \in DOMAIN known |->
                                       Val(IndexOf(Val(rec.cb_model.recipe_ids), known[j]))]),
                            Val(rec.cb_model.feature_matrix)
                                [Val(IndexOf(Val(rec.cb_model.recipe_ids),
                                             out.res.val[k][1]))])

\* a liked list with one id in the item table and one outside it, the cut
\* made, a recipe recommended
C13_Witness ==
    /\ out.op = "recommend_based_on_profile"
    /\ ~IsNone(rec.cb_model.recipe_ids)
    /\ Len(KnownLiked(rec.cb_model, out.args[1])) = 1
    /\ Len(out.args[1]) = 2
    /\ out.res.kind = "return"
    /\ Len(out.res.val) = 1

\* every item the recommender knows: the collaborative model's items and the
\* content model's recipes
Catalog(r) ==
    DOMAIN Val(r.cf_model.item_id_to_idx) \cup Range(Val(r.cb_model.recipe_ids))

\* C14: recommend returns the empty list for a user who has rated every item
\* of the catalog, whatever the ratings were.
C14_AllRatedGivesEmpty ==
    (/\ out.op = "recommend"
     /\ ~IsNone(rec.interactions_df)
     /\ Catalog(rec) \subseteq RatedItems(Val(rec.interactions_df), out.args[1]))
    => out.res = Ret(<<>>)

\* a catalog of two recipes, both rated by the user, one liked and one not
C14_Witness ==
    /\ out.op = "recommend"
    /\ ~IsNone(rec.interactions_df)
    /\ Cardinality(Catalog(rec)) = 2
    /\ Catalog(rec) \subseteq RatedItems(Val(rec.interactions_df), out.args[1])
    /\ Len(LikedItems(Val(rec.interactions_df), out.args[1])) = 1
    /\ out.res = Ret(<<>>)

\* C15: recommend returns the empty list, and raises nothing, for a user who
\* is not in the collaborative id mapping and has no interaction rated 4 or
\* more in interactions_df (none at all when the recommender holds no table).
C15_ColdStartFusionEmpty ==
    (/\ out.op = "recommend"
     /\ ~IsNone(rec.cf_model.user_factors)
     /\ ~KnownUser(rec.cf_model, out.args[1])
     /\ \/ IsNone(rec.interactions_df)
        \/ LikedItems(Val(rec.interactions_df), out.args[1]) = <<>>)
    => out.res = Ret(<<>>)

\* f maps the set `ids` one-to-one onto 0..N-1 and g maps every index back
InverseMaps(ids, f, g) ==
    /\ DOMAIN f = ids
    /\ {f[id] : id \in ids} = 0..(Cardinality(ids) - 1)
    /\ \A a, b \in ids : a # b => f[a] # f[b]
    /\ DOMAIN g = 0..(Cardinality(ids) - 1)
    /\ \A id \in ids : g[f[id]] = id

\* C16: the id mappings written by the preprocessing pipeline are exact
\* inverses over the raw ids of the interaction table, and the indices are
\* exactly 0..N-1, no gap, none shared; the index columns of the table use
\* the same indices.
C16_MappingsInverse ==
    ~IsNone(pre.id_mappings)
    => LET m == Val(pre.id_mappings)
           table == Val(pre.interactions_df)
       IN /\ InverseMaps({table[k].user_id : k \in DOMAIN table},
                         m.user_to_idx, m.idx_to_user)
          /\ InverseMaps({table[k].recipe_id : k \in DOMAIN table},
                         m.recipe_to_idx, m.idx_to_recipe)
          /\ \A k \in DOMAIN table :
                /\ table[k].user_idx = m.user_to_idx[table[k].user_id]
                /\ table[k].recipe_idx = m.recipe_to_idx[table[k].recipe_id]

\* mappings written for a table with two users and two recipes
C16_Witness ==
    /\ ~IsNone(pre.id_mappings)
    /\ Cardinality(DOMAIN Val(pre.id_mappings).user_to_idx) = 2
    /\ Cardinality(DOMAIN Val(pre.id_mappings).recipe_to_idx) = 2

\* the position of the first row of `table` whose column `col` holds id
FirstSeen(table, col, id) ==
    CHOOSE k \in DOMAIN table :
        table[k][col] = id /\ \A j \in DOMAIN table : table[j][col] = id => k <= j

\* C17 as stated: indices follow first-seen order, for user ids and for
\* recipe ids: an id first seen earlier in the table has the smaller index.
C17_FirstSeenOrder ==
    ~IsNone(pre.sparse_matrix)
    => LET table == Val(pre.interactions_df)
       IN \A j, k \in DOMAIN table :
             /\ FirstSeen(table, "user_id", table[j].user_id)
                    < FirstSeen(table, "user_id", table[k].user_id)
                => table[j].user_idx < table[k].user_idx
             /\ FirstSeen(table, "recipe_id", table[j].recipe_id)
                    < FirstSeen(table, "recipe_id", table[k].recipe_id)
                => table[j].recipe_idx < table[k].recipe_idx

\* C17 amended: indices follow the ascending order of the raw ids, wherever
\* the ids first appear in the table: a smaller raw id has the smaller index.
C17_SortedOrder ==
    ~IsNone(pre.sparse_matrix)
    => LET table == Val(pre.interactions_df)
       IN \A j, k \in DOMAIN table :
             /\ table[j].user_id < table[k].user_id
                => table[j].user_idx < table[k].user_idx
             /\ table[j].recipe_id < table[k].recipe_id
                => table[j].recipe_idx < table[k].recipe_idx

\* an encoded table whose first row holds the larger user id and the larger
\* recipe id
C17_Witness ==
    /\ ~IsNone(pre.sparse_matrix)
    /\ Len(Val(pre.interactions_df)) = 2
    /\ Val(pre.interactions_df)[1].user_id > Val(pre.interactions_df)[2].user_id
    /\ Val(pre.interactions_df)[1].recipe_id > Val(pre.interactions_df)[2].recipe_id
    /\ Val(pre.interactions_df)[1].user_idx = 1
    /\ Val(pre.interactions_df)[2].user_idx = 0

QueryOps ==
    {"predict", "recommend_items", "get_similar_items",
     "recommend_based_on_profile", "recommend"}

\* C18: no query changes the trained state: a step that makes one of the
\* five queries leaves the recommender (factor arrays, id mappings,
\* global_mean, recipe_ids, feature_matrix, weights, interactions_df), the
\* preprocessor's tables and the saved files as they were.
C18_QueriesLeaveStateAlone ==
    [][(out.op = "idle" /\ out'.op \in QueryOps)
          => (rec' = rec /\ pre' = pre /\ disk' = disk)]_vars

\* a fused query answered by a fitted recommender that holds the rows of
\* two users
C18_Witness ==
    /\ Returned("recommend")
    /\ out.res.val # <<>>
    /\ ~IsNone(rec.cf_model.user_factors)
    /\ Cardinality({row.user_id : row \in Range(Val(rec.interactions_df))}) = 2

\* the trained states a fit publishes: the recommender as the earlier fit
\* left it, and as a complete fit on the preprocessor's tables leaves it
Snapshots ==
    {OldRecommender} \cup
    (IF IsNone(pre.id_mappings) THEN {}
     ELSE {HybridFit(rec, Val(pre.recipes_df), Val(pre.interactions_df),
                     Val(pre.sparse_matrix), Val(pre.id_mappings), V) :
              V \in Components(Val(pre.sparse_matrix).shape[2])})

\* C19: a predict, recommend_items or recommend that runs while the
\* recommender is fitted again answers as the old trained state or as the
\* new one answers, never from a mix of the two.
C19_NoMixedState ==
    /\ out.op = "predict"
       => \E r \in Snapshots :
             out.res = Predict(r.cf_model, out.args[1], out.args[2])
    /\ out.op = "recommend_items"
       => \E r \in Snapshots :
             out.res = RecommendItems(r.cf_model, out.args[1], out.args[2], out.args[3])
    /\ out.op = "recommend"
       => \E r \in Snapshots :
             \E order \in Perms(AllItems(r, out.args[1], out.args[2])) :
                out.res = Recommend(r, out.args[1], out.args[2], order)

\* C20: when an id mapping points past the end of the stored factor arrays,
\* predict answers with an error, not with a rating value.
C20_MismatchRejected ==
    (/\ out.op = "predict"
     /\ KnownUser(rec.cf_model, out.args[1])
     /\ KnownItem(rec.cf_model, out.args[2])
     /\ \/ Val(rec.cf_model.user_id_to_idx)[out.args[1]]
               \notin DOMAIN Val(rec.cf_model.user_factors)
        \/ Val(rec.cf_model.item_id_to_idx)[out.args[2]]
               \notin DOMAIN Val(rec.cf_model.item_factors))
    => out.res.kind = "raise"

\* C21: in the list recommend_items returns, two items with the same
\* predicted score stand in increasing order of their item index.
C21_TiesInIndexOrder ==
    (Returned("recommend_items") /\ KnownUser(rec.cf_model, out.args[1]))
    => \A j, k \in DOMAIN out.res.val :
          (j < k /\ out.res.val[j][2] = out.res.val[k][2])
          => Val(rec.cf_model.item_id_to_idx)[out.res.val[j][1]]
                 < Val(rec.cf_model.item_id_to_idx)[out.res.val[k][1]]

\* a known user with non-zero factors, nothing excluded, n = 2: both items
\* of the model are returned with the same score
C21_Witness ==
    /\ Returned("recommend_items")
    /\ KnownUser(rec.cf_model, out.args[1])
    /\ out.args[3] = {}
    /\ Val(rec.cf_model.user_factors)[Val(rec.cf_model.user_id_to_idx)[out.args[1]]] # 0
    /\ Len(out.res.val) = 2
    /\ out.res.val[1][2] = out.res.val[2][2]
    /\ out.res.val[1][1] # out.res.val[2][1]

\* C22: get_similar_items(item_id, n) returns at most n items with
\* similarities non-increasing, and two returned items with the same
\* similarity stand in increasing order of their index in recipe_ids.
C22_SimilarTiesInIndexOrder ==
    Returned("get_similar_items")
    => /\ Len(out.res.val) <= out.args[2]
       /\ NonIncreasing(out.res.val)
       /\ \A j, k \in DOMAIN out.res.val :
             (j < k /\ out.res.val[j][2] = out.res.val[k][2])
             => Val(IndexOf(Val(rec.cb_model.recipe_ids), out.res.val[j][1]))
                    < Val(IndexOf(Val(rec.cb_model.recipe_ids), out.res.val[k][1]))

\* C23: in the list recommend returns, two items with the same hybrid score
\* (both of them items of the collaborative model) stand in increasing order
\* of their item index, whatever order the candidate set was iterated in.
C23_HybridTiesInIndexOrder ==
    Returned("recommend")
    => \A j, k \in DOMAIN out.res.val :
          (/\ j < k
           /\ out.res.val[j][2] = out.res.val[k][2]
           /\ KnownItem(rec.cf_model, out.res.val[j][1])
           /\ KnownItem(rec.cf_model, out.res.val[k][1]))
          => Val(rec.cf_model.item_id_to_idx)[out.res.val[j][1]]
                 < Val(rec.cf_model.item_id_to_idx)[out.res.val[k][1]]

\* C24: when recommend obtains its two candidate lists, neither the
\* collaborative list nor the content list holds an item the user has rated.
C24_CandidatesExcludeRated ==
    (/\ out.op = "recommend"
     /\ ~IsNone(rec.interactions_df)
     /\ CfRecs(rec, out.args[1], out.args[2]).kind = "return"
     /\ CbRecs(rec, out.args[1], out.args[2]).kind = "return")
    => LET rated_items == RatedItems(Val(rec.interactions_df), out.args[1])
       IN /\ ItemsOf(CfRecs(rec, out.args[1], out.args[2]).val) \cap rated_items = {}
          /\ ItemsOf(CbRecs(rec, out.args[1], out.args[2]).val) \cap rated_items = {}

\* the number of times `row` occurs in `table`
CountIn(table, row) == Cardinality({k \in DOMAIN table : table[k] = row})

\* C25: the split puts every row of a user with at least 10 interactions
\* into exactly one of train and test, floor(0.8 n) of the user's n rows
\* into train and the other rows, at least 2, into test; a user with fewer
\* than 10 interactions has no row in either.
C25_SplitPartitions ==
    Returned("split")
    => LET table == out.args[1]
           counts == ValueCounts(table)
           train == out.res.val.train_interactions
           test == out.res.val.test_interactions
       IN \A u \in DOMAIN counts :
             LET n == counts[u]
                 in_train == Len(UserInteractions(train, u))
                 in_test == Len(UserInteractions(test, u))
             IN IF n >= 10
                THEN /\ \A row \in Range(UserInteractions(table, u)) :
                           CountIn(train, row) + CountIn(test, row) = 1
                     /\ 10 * in_train <= 8 * n
                     /\ 10 * (in_train + 1) > 8 * n
                     /\ in_test = n - in_train
                     /\ in_test >= 2
                ELSE in_train = 0 /\ in_test = 0

\* a split of a table where one user has 11 rows (8 to train, 3 to test) and
\* the other 9 rows (none kept), shuffled by a non-trivial permutation
C25_Witness ==
    /\ Returned("split")
    /\ \E u, v \in UserIds :
          /\ Len(UserInteractions(out.args[1], u)) = 11
          /\ Len(UserInteractions(out.args[1], v)) = 9
          /\ Len(out.res.val.train_interactions) = 8
          /\ Len(out.res.val.test_interactions) = 3
          /\ out.res.val.train_interactions
                 # SubSeq(UserInteractions(out.args[1], u), 1, 8)

\* a fraction between 0 and 1
InUnitInterval(q) == q[2] > 0 /\ 0 <= q[1] /\ q[1] <= q[2]

NoRepeats(list) ==
    \A j, k \in DOMAIN list : list[j][1] = list[k][1] => j = k

\* C30: for a recommendation list without repeated items, any relevant set
\* and any k >= 1, precision, recall and MAP at k are each in [0, 1];
\* precision is 0 for the empty list, recall and MAP are 0 for the empty
\* relevant set.
C30_MetricsInUnitInterval ==
    (Returned("metrics") /\ NoRepeats(out.args[1]))
    => /\ InUnitInterval(out.res.val.precision)
       /\ InUnitInterval(out.res.val.recall)
       /\ InUnitInterval(out.res.val.map)
       /\ out.args[1] = <<>> => out.res.val.precision[1] = 0
       /\ out.args[2] = {} => (out.res.val.recall[1] = 0 /\ out.res.val.map[1] = 0)

\* a list longer than k whose first k items are all relevant and whose
\* next item is relevant too: precision 1, MAP 1, recall below 1
C30_Witness ==
    /\ Returned("metrics")
    /\ NoRepeats(out.args[1])
    /\ out.args[3] = 2
    /\ Len(out.args[1]) = 3
    /\ ItemsOf(out.args[1]) = out.args[2]
    /\ out.res.val.precision = <<2, 2>>
    /\ out.res.val.recall = <<2, 3>>
    /\ out.res.val.map[1] = out.res.val.map[2]

\* C29: after load_data(min_interactions_per_user = m), every user left in
\* interactions_df has at least m interactions with the loaded recipes.
C29_LoadedUsersAreActive ==
    (Returned("load_data") /\ ~IsNone(out.res.val.interactions_df))
    => LET user_counts == ValueCounts(Val(out.res.val.interactions_df))
       IN \A u \in DOMAIN user_counts : user_counts[u] >= out.args[3]

\* C26: the evaluation samples min(cap, number of eligible users) different
\* users, and a second evaluation of the same recommender and tables
\* samples the same users as the first.
C26_SampleReproducible ==
    /\ run.pc \in {"eval_loop", "aggregate", "save"}
       => LET valid_test_users == ValidTestUsers(Val(run.test_interactions),
                                                 Val(run.train_interactions))
          IN /\ Len(run.sampled_users) = Min2(MaxSample, Cardinality(valid_test_users))
             /\ Range(run.sampled_users) \subseteq valid_test_users
             /\ \A j, k \in DOMAIN run.sampled_users :
                   run.sampled_users[j] = run.sampled_users[k] => j = k
    /\ (run.pc = "save" /\ ~IsNone(run.last))
       => Range(run.sampled_users) = Range(Val(run.last).sampled_users)

\* the users the loop has handled that contributed to the ranking averages
\* (a non-empty filtered ranking) and to the rating averages (a rating pair)
RankedUsers ==
    {j \in DOMAIN run.seen :
        /\ ~IsNone(run.seen[j].filtered_recs)
        /\ Val(run.seen[j].filtered_recs) # <<>>}

RatedUsers == {j \in DOMAIN run.seen : run.seen[j].pairs > 0}

C28_PhasesInOrder ==
    [][/\ run'.pc # run.pc
          => \/ run'.pc \in {"done", "crashed"}
             \/ PhaseNo(run'.pc) = PhaseNo(run.pc) + 1
             \/ run.pc = "evaluate" /\ run'.pc = "aggregate"
       /\ run.pc = "eval_loop"
          => /\ rec.interactions_df = run.train_interactions
             /\ ~IsNone(run.train_interactions)
             /\ ~IsNone(rec.cf_model.user_factors)
             /\ ~IsNone(rec.cb_model.feature_matrix)
       /\ run.pc \in {"evaluate", "eval_loop", "aggregate", "save"} => rec' = rec
       /\ (run.pc = "load" /\ (IsNone(pre'.recipes_df) \/ IsNone(pre'.interactions_df)))
          => run'.pc \in {"done", "crashed"}
       /\ run.pc \in {"done", "crashed"} => vars' = vars
      ]_vars

\* a finished run: one valid user in the report, the model saved, every
\* phase passed
C28_Witness ==
    /\ run.pc = "done"
    /\ ~IsNone(run.results)
    /\ Val(run.results).valid_users = 1
    /\ ~IsNone(disk)
    /\ Returned("recommend")

=============================================================================
